---- MODULE Spec2Model ----
(***************************************************************************)
(* Process lifecycle of snadboy_ssh_docker: ConnectionPool (connection.py) *)
(* and the SSHDockerClient entry points that drive it (client.py).         *)
(*                                                                         *)
(* The asyncio event loop runs one coroutine at a time; coroutines         *)
(* interleave only where they suspend at an await.  `cur` is the task      *)
(* that holds the loop (0: the loop is idle, any ready task may resume).   *)
(* Child processes change state on their own (ProcExit); the loop learns   *)
(* of an exit and collects the return code in LoopReap.  A call that ends  *)
(* holds the loop until its caller has taken the result (Return); the      *)
(* record of a reaped process nothing refers to any more is dropped.       *)
(***************************************************************************)
EXTENDS Integers, Sequences, FiniteSets, TLC

\* ---- bounds of the model
MaxTasks == 2          \* coroutines that may be in flight at once
MaxProcs == 2          \* child processes tracked at once
MaxSigs  == 1          \* signals remembered per process (saturating)
MaxCmd   == 4          \* lexemes in a sub-command string
MaxText  == 2          \* lexemes in what a child writes to stdout or stderr
MaxFilters == 2        \* items of a filters dict
MaxMatched == 2        \* containers found for one service
MaxCalls == 3          \* setup_ssh calls followed on one client
MaxGens  == 2          \* regenerations of the SSH configuration file followed
MaxLines == 2          \* lexemes of user text before, and after, the managed section

\* ---- the host registry (HostsConfig.hosts): two configured aliases, and
\* ---- one alias that is not configured
Hosts   == {"local1", "remote1"}
Unknown == "nohost"
Aliases == Hosts \cup {Unknown}
\* ConnectionPool reads host_config.is_local before every spawn
\* (connection.py 60, 90, 150, 231, 252); models.py declares no such field
\* on HostConfig, so the attribute is taken from the specification's
\* HostTarget.is_local: a fixed boolean of each configured host.
IsLocal(a) == a = "local1"

Tasks == 1..MaxTasks
Pids  == 1..MaxProcs

\* the methods class ConnectionPool defines
PoolMethods ==
    { "execute_docker_command", "execute_docker_command_json",
      "start_event_stream", "stop_event_stream", "get_event_stream",
      "cleanup", "__aenter__", "__aexit__",
      "execute_docker_command_sync", "execute_docker_command_json_sync" }

\* the operations a caller may invoke: the event-stream manager's and the
\* process executor's
StreamOps ==
    { "start_event_stream", "stop_event_stream", "cleanup", "close",
      "docker_events" }
ExecOps == { "execute_docker_command", "execute_docker_command_sync" }
Ops == StreamOps \cup ExecOps

SpawningOps ==
    { "start_event_stream", "execute_docker_command",
      "execute_docker_command_sync" }

VARIABLES
    streams,   \* ConnectionPool._event_streams: dict alias -> process, in insertion order
    procs,     \* the child processes, by pid ("free": no such process)
    pc,        \* per task: where its coroutine stands
    op,        \* per task: the operation it runs
    arg,       \* per task: the host_alias argument
    tmo,       \* per task: TRUE when the call carries a timeout (not None)
    lp,        \* per task: the local `process` of start/execute (0: unbound)
    sp,        \* per task: the local `process` of stop_event_stream (0: unbound)
    keys,      \* per task: cleanup's list(self._event_streams.keys()) still to visit
    result,    \* per task: value returned / exception raised
    cur,       \* the task running on the loop, 0 when the loop is idle
    call,      \* one execute call followed from its arguments to its result
    req,       \* one client request (inspect, list) followed over its pool calls
    hosts,     \* HostsConfig.hosts: alias -> the host configuration stored for it
    run,       \* one execute_docker_command call while the registry may change
    flt,       \* one _expand_filter_shortcuts call: its argument and its value
    dep,       \* one analyze_compose_deployment call: matched containers, report
    ssh,       \* the SSH directory and SSHDockerClient._setup_complete
    con,       \* one client over hosts some of which are disabled: its spawns
    lst        \* list_containers and list_containers_sync on the same arguments

lifeVars == <<streams, procs, pc, op, arg, tmo, lp, sp, keys, result, cur>>
extVars == <<ssh, con, lst>>
pureVars == <<hosts, run, flt, dep, extVars>>
fnVars == <<call, req, hosts, run, flt, dep, extVars>>
oldVars == <<lifeVars, call, req, hosts, run, flt, dep>>
vars == <<streams, procs, pc, op, arg, tmo, lp, sp, keys, result, cur, call, req,
          hosts, run, flt, dep, ssh, con, lst>>

\* ---- the dict _event_streams
Has(reg, a) == \E i \in 1..Len(reg) : reg[i].alias = a
Get(reg, a) == reg[CHOOSE i \in 1..Len(reg) : reg[i].alias = a].pid
Put(reg, a, p) ==
    IF Has(reg, a)
    THEN [i \in 1..Len(reg) |->
            IF reg[i].alias = a THEN [alias |-> a, pid |-> p] ELSE reg[i]]
    ELSE Append(reg, [alias |-> a, pid |-> p])
Del(reg, a) == SelectSeq(reg, LAMBDA e : e.alias # a)
KeyList(reg) == [i \in 1..Len(reg) |-> reg[i].alias]

\* ---- child processes
FreeProc == [alias |-> Unknown, kind |-> "free", st |-> "free", sigs |-> <<>>]

NewProc(a, k) == [alias |-> a, kind |-> k, st |-> "running", sigs |-> <<>>]

Used == {p \in Pids : procs[p].st # "free"}
NextPid == CHOOSE p \in Pids \ Used : \A q \in Pids \ Used : p <= q

\* drop the reaped processes that neither the registry nor a task refers to
Collect(P, reg, l, s) ==
    [p \in Pids |->
        IF /\ P[p].st = "reaped"
           /\ \A i \in 1..Len(reg) : reg[i].pid # p
           /\ \A t \in Tasks : l[t] # p /\ s[t] # p
        THEN FreeProc ELSE P[p]]

Signal(p, s) ==
    IF Len(procs[p].sigs) < MaxSigs
    THEN [procs EXCEPT ![p].sigs = Append(@, s)]
    ELSE procs

Killed(p) == \E i \in 1..Len(procs[p].sigs) : procs[p].sigs[i] = "KILL"

\* asyncio Process.kill(): BaseSubprocessTransport.kill() checks _proc first and
\* raises ProcessLookupError once the transport has finished (the loop has
\* collected the exit and the pipes reached EOF); while the pipes are still
\* open the Popen object skips the signal for a process known to be dead.
KillOutcomes(p) ==
    IF procs[p].st = "reaped" THEN {"noop", "ProcessLookupError"} ELSE {"sent"}

Idle(t) == pc[t] = "idle"

WillSpawn(u) ==
    \/ op[u] = "start_event_stream"
         /\ pc[u] \in {"stop_enter", "stop_wait", "st_spawn"}
    \/ op[u] = "execute_docker_command" /\ pc[u] \in {"ex_enter", "ex_spawn"}
    \/ op[u] = "execute_docker_command_sync" /\ pc[u] = "sy_enter"

Entry(o) ==
    CASE o = "start_event_stream"          -> "stop_enter"
      [] o = "stop_event_stream"           -> "stop_enter"
      [] o = "cleanup"                     -> "cl_enter"
      [] o = "execute_docker_command"      -> "ex_enter"
      [] o = "execute_docker_command_sync" -> "sy_enter"
      [] o = "close"                       -> "close_enter"
      [] o = "docker_events"               -> "de_enter"

\* ---- values that calls carry
\* timeout arguments: None (no limit), 1 second, and the default of the pool
NoTimeout == 0
DefaultTimeout == 30
Timeouts == {NoTimeout, 1, DefaultTimeout}

\* what a call delivers: the value returned ("ok") or the exception raised;
\* val is the output or the error_msg it carries, secs the seconds of a timeout
Res(k, v, n) == [kind |-> k, val |-> v, secs |-> n]

NoExit == [rc |-> 0, out |-> <<>>, err |-> <<>>]
NoRes == Res("none", <<>>, 0)
NoEvent == [how |-> "none", x |-> NoExit]

\* no execute call is being followed; `how` is the way a call ended:
\* "unknown" (alias), "spawn_error", "exit", "timeout", "gone" (timeout with
\* the child already collected)
NoCall ==
    [stage |-> "none", style |-> "async", alias |-> Unknown, cmd |-> <<>>,
     tm |-> NoTimeout, argv |-> <<>>, n |-> 0, how |-> "none", x |-> NoExit,
     res |-> NoRes]

\* no client request is being followed
NoReq ==
    [stage |-> "none", op |-> "none", style |-> "async", host |-> Unknown,
     todo |-> <<>>, seen |-> <<>>, acc |-> <<>>, ev |-> NoEvent, res |-> NoRes]

\* `alias not in self.hosts_config.hosts`
NoHost == "none"

\* no execute call is being followed against the changing registry
NoRun ==
    [stage |-> "none", alias |-> Unknown, cfg |-> NoHost, cmd |-> <<>>,
     argv |-> <<>>, x |-> NoExit, res |-> NoRes]

\* a filters argument: None, or a dict as the sequence of its items
NoFilters == [none |-> TRUE, items |-> <<>>]

\* no _expand_filter_shortcuts call is being followed
NoFlt == [stage |-> "none", in |-> NoFilters, out |-> NoFilters]

\* analyze_compose_deployment, client.py lines 297-307: the result structure
\* before any service is analysed
NoReport ==
    [services |-> [s \in {} |-> 0],
     actions_available |->
        [up |-> FALSE, down |-> FALSE, restart |-> FALSE, start |-> FALSE,
         stop |-> FALSE]]

\* no analyze_compose_deployment call is being followed
NoDep == [stage |-> "none", matched |-> [s \in {} |-> 0], out |-> NoReport]

\* a text file: absent, or its text
NoFile == [exists |-> FALSE, text |-> <<>>]

\* no SSH directory is being followed
NoSsh ==
    [stage |-> "none", enabled |-> <<>>, dirs |-> "none", file |-> NoFile,
     orig |-> NoFile, key |-> "missing", writable |-> TRUE, bound |-> FALSE,
     complete |-> FALSE, calls |-> 0, gens |-> 0, writes |-> 0,
     last |-> "none"]

\* no client over partly disabled hosts is being followed
NoCon ==
    [stage |-> "none", enabled |-> [a \in Hosts |-> TRUE], op |-> "none",
     host |-> Unknown, todo |-> <<>>, spawned |-> <<>>]

\* no pair of list_containers calls is being followed
NoLst ==
    [stage |-> "none", host |-> Unknown, all |-> FALSE, filters |-> NoFilters,
     cmd |-> [async |-> <<>>, sync |-> <<>>],
     hosts |-> [async |-> <<>>, sync |-> <<>>],
     i |-> 1,
     out |-> [async |-> <<>>, sync |-> <<>>]]

TypeOK ==
    /\ cur \in 0..MaxTasks
    /\ \A i \in 1..Len(streams) : streams[i].pid \in Used
    /\ \A t \in Tasks : lp[t] \in Used \cup {0} /\ sp[t] \in Used \cup {0}
    /\ \A t \in Tasks : op[t] \in Ops \cup {"none"} /\ arg[t] \in Aliases

Init ==
    /\ streams = <<>>
    /\ procs = [p \in Pids |-> FreeProc]
    /\ pc = [t \in Tasks |-> "idle"]
    /\ op = [t \in Tasks |-> "none"]
    /\ arg = [t \in Tasks |-> Unknown]
    /\ tmo = [t \in Tasks |-> FALSE]
    /\ lp = [t \in Tasks |-> 0]
    /\ sp = [t \in Tasks |-> 0]
    /\ keys = [t \in Tasks |-> <<>>]
    /\ result = [t \in Tasks |-> "none"]
    /\ cur = 0
    /\ call = NoCall
    /\ req = NoReq
    /\ hosts = [a \in Aliases |-> IF a \in Hosts THEN a ELSE NoHost]
    /\ run = NoRun
    /\ flt = NoFlt
    /\ dep = NoDep
    /\ ssh = NoSsh
    /\ con = NoCon
    /\ lst = NoLst

\* ---- a call begins: the caller's coroutine is scheduled and enters the method.
\* seq = TRUE admits a call only when no other call is in flight.
Begin(t, o, a, h, seq) ==
    /\ cur = 0
    /\ Idle(t)
    /\ seq => \A u \in Tasks : Idle(u)
    /\ o \in {"cleanup", "close"} => a = Unknown
    /\ h => o \in {"execute_docker_command", "execute_docker_command_sync"}
    /\ o \in SpawningOps =>
          Cardinality(Used) + Cardinality({u \in Tasks : WillSpawn(u)}) < MaxProcs
    /\ pc' = [pc EXCEPT ![t] = Entry(o)]
    /\ op' = [op EXCEPT ![t] = o]
    /\ arg' = [arg EXCEPT ![t] = a]
    /\ tmo' = [tmo EXCEPT ![t] = h]
    /\ cur' = t
    /\ UNCHANGED <<streams, procs, lp, sp, keys, result>>
    /\ UNCHANGED fnVars

\* ---- the call of task t ends with r (a return value or a raised exception)
Done(t, r) ==
    /\ pc' = [pc EXCEPT ![t] = "done"]
    /\ result' = [result EXCEPT ![t] = r]
    /\ cur' = t

\* ---- the caller has the result: the coroutine's frame is gone
Return(t) ==
    /\ cur = t
    /\ pc[t] = "done"
    /\ pc' = [pc EXCEPT ![t] = "idle"]
    /\ op' = [op EXCEPT ![t] = "none"]
    /\ arg' = [arg EXCEPT ![t] = Unknown]
    /\ tmo' = [tmo EXCEPT ![t] = FALSE]
    /\ lp' = [lp EXCEPT ![t] = 0]
    /\ sp' = [sp EXCEPT ![t] = 0]
    /\ keys' = [keys EXCEPT ![t] = <<>>]
    /\ result' = [result EXCEPT ![t] = "none"]
    /\ cur' = 0
    /\ procs' = Collect(procs, streams, lp', sp')
    /\ UNCHANGED streams
    /\ UNCHANGED fnVars

\* ---- stop_event_stream(host_alias), also as called from start_event_stream
\* ---- and from cleanup
StopTarget(t) == IF op[t] = "cleanup" THEN Head(keys[t]) ELSE arg[t]

\* what the caller does once stop_event_stream has returned
AfterStop(t) ==
    CASE op[t] = "stop_event_stream" ->
            Done(t, "ok") /\ keys' = keys
      [] op[t] = "start_event_stream" ->
            \* get_host_config raises ValueError for an alias not configured;
            \* otherwise the coroutine suspends in create_subprocess_exec
            IF arg[t] \in Hosts
            THEN /\ pc' = [pc EXCEPT ![t] = "st_spawn"]
                 /\ cur' = 0
                 /\ UNCHANGED <<result, keys>>
            ELSE Done(t, "ValueError") /\ keys' = keys
      [] op[t] = "cleanup" ->
            \* next alias of the snapshot, or the end of the loop
            IF Len(keys[t]) > 1
            THEN /\ keys' = [keys EXCEPT ![t] = Tail(@)]
                 /\ pc' = [pc EXCEPT ![t] = "stop_enter"]
                 /\ cur' = t
                 /\ UNCHANGED <<result>>
            ELSE Done(t, "ok") /\ keys' = [keys EXCEPT ![t] = <<>>]

\* a variant that indexes the dict without the membership test
StopEnterNoCheck(t) ==
    /\ cur = t
    /\ pc[t] = "stop_enter"
    /\ IF Has(streams, StopTarget(t))
       THEN /\ sp' = [sp EXCEPT ![t] = Get(streams, StopTarget(t))]
            /\ procs' = Signal(Get(streams, StopTarget(t)), "KILL")
            /\ pc' = [pc EXCEPT ![t] = "stop_wait"]
            /\ cur' = 0
            /\ UNCHANGED <<streams, keys, result>>
       ELSE /\ Done(t, "KeyError")
            /\ UNCHANGED <<streams, procs, sp, keys>>
    /\ UNCHANGED <<op, arg, tmo, lp>>
    /\ UNCHANGED fnVars

\* a variant that does not wait for the killed process before the del
StopEnterNoWait(t) ==
    /\ cur = t
    /\ pc[t] = "stop_enter"
    /\ IF ~Has(streams, StopTarget(t))
       THEN /\ AfterStop(t)
            /\ UNCHANGED <<streams, procs, sp>>
       ELSE /\ sp' = [sp EXCEPT ![t] = Get(streams, StopTarget(t))]
            /\ procs' = Signal(Get(streams, StopTarget(t)), "KILL")
            /\ streams' = Del(streams, StopTarget(t))
            /\ AfterStop(t)
    /\ UNCHANGED <<op, arg, tmo, lp>>
    /\ UNCHANGED fnVars

\* lines 175-178: membership test, process.kill(), await process.wait()
StopEnter(t) ==
    /\ cur = t
    /\ pc[t] = "stop_enter"
    /\ IF ~Has(streams, StopTarget(t))
       THEN /\ AfterStop(t)
            /\ UNCHANGED <<streams, procs, sp>>
       ELSE LET p == Get(streams, StopTarget(t)) IN
            \E o \in KillOutcomes(p) :
              IF o = "ProcessLookupError"
              THEN /\ Done(t, "ProcessLookupError")
                   /\ sp' = [sp EXCEPT ![t] = p]
                   /\ keys' = [keys EXCEPT ![t] = <<>>]
                   /\ UNCHANGED <<streams, procs>>
              ELSE /\ sp' = [sp EXCEPT ![t] = p]
                   /\ procs' = IF o = "sent" THEN Signal(p, "KILL") ELSE procs
                   /\ IF procs[p].st = "reaped"
                      THEN \* wait() returns at once, no suspension: del, go on
                           /\ streams' = Del(streams, StopTarget(t))
                           /\ AfterStop(t)
                      ELSE /\ pc' = [pc EXCEPT ![t] = "stop_wait"]
                           /\ cur' = 0
                           /\ UNCHANGED <<streams, keys, result>>
    /\ UNCHANGED <<op, arg, tmo, lp>>
    /\ UNCHANGED fnVars

\* lines 178-179: process.wait() returns, del self._event_streams[host_alias]
StopWaitReturn(t) ==
    /\ cur = 0
    /\ pc[t] = "stop_wait"
    /\ procs[sp[t]].st = "reaped"
    /\ IF Has(streams, StopTarget(t))
       THEN /\ streams' = Del(streams, StopTarget(t))
            /\ AfterStop(t)
       ELSE /\ Done(t, "KeyError")
            /\ keys' = [keys EXCEPT ![t] = <<>>]
            /\ UNCHANGED streams
    /\ UNCHANGED <<procs, lp, sp, op, arg, tmo>>
    /\ UNCHANGED fnVars

\* ---- start_event_stream, lines 158-167
\* a variant that lets the spawn error through unwrapped
StartSpawnFailRaw(t) ==
    /\ cur = 0
    /\ pc[t] = "st_spawn"
    /\ Done(t, "OSError")
    /\ UNCHANGED <<streams, procs, lp, sp, keys, op, arg, tmo>>
    /\ UNCHANGED fnVars

\* a variant of the registration that rebuilds the dict around the new entry
StartSpawnOkAlone(t) ==
    /\ cur = 0
    /\ pc[t] = "st_spawn"
    /\ Used # Pids
    /\ procs' = [procs EXCEPT ![NextPid] = NewProc(arg[t], "stream")]
    /\ streams' = <<[alias |-> arg[t], pid |-> NextPid]>>
    /\ lp' = [lp EXCEPT ![t] = NextPid]
    /\ Done(t, "ok")
    /\ UNCHANGED <<sp, keys, op, arg, tmo>>
    /\ UNCHANGED fnVars

\* create_subprocess_exec returns: the process is registered under the alias
StartSpawnOk(t) ==
    /\ cur = 0
    /\ pc[t] = "st_spawn"
    /\ Used # Pids
    /\ procs' = [procs EXCEPT ![NextPid] = NewProc(arg[t], "stream")]
    /\ streams' = Put(streams, arg[t], NextPid)
    /\ lp' = [lp EXCEPT ![t] = NextPid]
    /\ Done(t, "ok")
    /\ UNCHANGED <<sp, keys, op, arg, tmo>>
    /\ UNCHANGED fnVars

\* create_subprocess_exec raises: except Exception -> SSHConnectionError
StartSpawnFail(t) ==
    /\ cur = 0
    /\ pc[t] = "st_spawn"
    /\ Done(t, "SSHConnectionError:start")
    /\ UNCHANGED <<streams, procs, lp, sp, keys, op, arg, tmo>>
    /\ UNCHANGED fnVars

\* ---- cleanup, lines 194-198: snapshot of the keys, then stop each
CleanupEnter(t) ==
    /\ cur = t
    /\ pc[t] = "cl_enter"
    /\ IF streams = <<>>
       THEN Done(t, "ok") /\ keys' = keys
       ELSE /\ keys' = [keys EXCEPT ![t] = KeyList(streams)]
            /\ pc' = [pc EXCEPT ![t] = "stop_enter"]
            /\ UNCHANGED <<result, cur>>
    /\ UNCHANGED <<streams, procs, lp, sp, op, arg, tmo>>
    /\ UNCHANGED fnVars

\* ---------------------------------------------------------------------
\* Strings.  A string is a sequence of lexemes; no substring the code looks
\* for spans two lexemes.
\* ---------------------------------------------------------------------
\* all sequences over S of length at most n
SeqsUpTo(S, n) == UNION { [1..k -> S] : k \in 0..n }

White == {"ws", "crlf", "lf"}          \* what str.strip() removes

RECURSIVE LStrip(_)
LStrip(s) == IF s # <<>> /\ Head(s) \in White THEN LStrip(Tail(s)) ELSE s

RECURSIVE RStrip(_)
RStrip(s) ==
    IF s # <<>> /\ s[Len(s)] \in White
    THEN RStrip(SubSeq(s, 1, Len(s) - 1))
    ELSE s

\* str.strip()
Strip(s) == RStrip(LStrip(s))

\* str.lower(), lexeme by lexeme
LowerItem(x) ==
    CASE x = "Connection" -> "connection"
      [] x = "Running" -> "running"
      [] x = "No such object" -> "no such object"
      [] OTHER -> x

Lower(s) == [i \in 1..Len(s) |-> LowerItem(s[i])]

\* `sub in s`
Contains(s, sub) == \E i \in 1..Len(s) : s[i] = sub

\* str.startswith("docker")
StartsWithDocker(s) == s # <<>> /\ s[1] = "docker"

\* ---- the sub-command strings callers pass: words, blanks and one quoted
\* ---- argument
CmdItems == {"ws", "docker", "ps", "'{{json .}}'"}
Commands == SeqsUpTo(CmdItems, MaxCmd)

\* the text a lexeme contributes to its token: shlex removes the quotes
Unquote(x) == IF x = "'{{json .}}'" THEN "{{json .}}" ELSE x

\* shlex.split: blanks separate tokens, adjacent lexemes join into one token
\* (a token is the sequence of its pieces)
RECURSIVE SplitFrom(_, _, _)
SplitFrom(c, toks, tok) ==
    IF c = <<>>
    THEN IF tok = <<>> THEN toks ELSE Append(toks, tok)
    ELSE IF Head(c) = "ws"
         THEN SplitFrom(Tail(c), IF tok = <<>> THEN toks ELSE Append(toks, tok), <<>>)
         ELSE SplitFrom(Tail(c), toks, Append(tok, Unquote(Head(c))))

ShlexSplit(c) == SplitFrom(c, <<>>, <<>>)

\* list.insert(i, x) for 0 <= i (Python appends when i is past the end)
Insert(l, i, x) ==
    IF i >= Len(l)
    THEN Append(l, x)
    ELSE SubSeq(l, 1, i) \o <<x>> \o SubSeq(l, i + 1, Len(l))

\* ---- Command Builder
HostUser(a) == IF a = "remote1" THEN "u" ELSE "me"
HostName(a) == IF a = "remote1" THEN "host1" ELSE "localhost"

\* f"ssh://{host_config.user}@{host_config.hostname}", one token
DockerHost(a) == <<"ssh://", HostUser(a), "@", HostName(a)>>

\* the host-dependent part, lines 60-80 and 231-239
TargetArgv(a, parts) ==
    IF IsLocal(a)
    THEN parts
    ELSE Insert(Insert(parts, 1, <<"-H">>), 2, DockerHost(a))

\* execute_docker_command, lines 56-57 and 62/71
BuildAsync(a, c) ==
    TargetArgv(a, ShlexSplit(IF StartsWithDocker(Strip(c))
                             THEN c
                             ELSE <<"docker", "ws">> \o c))

\* execute_docker_command_sync, lines 227-228
BuildSync(a, c) ==
    TargetArgv(a, ShlexSplit(IF StartsWithDocker(c)
                             THEN c
                             ELSE <<"docker", "ws">> \o c))

\* ---- Result Classifier, lines 88-92 and 250-254: the test on error_msg
Classify(a, msg) ==
    IF ~IsLocal(a) /\ (Contains(Lower(msg), "ssh:") \/ Contains(Lower(msg), "connection"))
    THEN "SSHConnectionError:connection"
    ELSE "DockerCommandError:command"

\* ---- what a child writes: bytes, as lexemes; "{}" is a JSON object, "x" any
\* ---- other text, "bad" a byte sequence that is not valid UTF-8
OutItems == {"ws", "crlf", "{}", "bad"}
ErrItems == {"ws", "ssh:", "Connection", "No such object", "x", "bad"}
OutTexts == SeqsUpTo(OutItems, MaxText)
ErrTexts == SeqsUpTo(ErrItems, MaxText)

\* bytes.decode() raises UnicodeDecodeError; so does the text mode of
\* subprocess.run (locale encoding UTF-8)
DecodeFails(b) == Contains(b, "bad")

\* text mode of subprocess.run: universal newlines
Translate(s) == [i \in 1..Len(s) |-> IF s[i] = "crlf" THEN "lf" ELSE s[i]]

\* what the child left behind: its return code, stdout and stderr
ExitStatus == [rc : {0, 1}, out : OutTexts, err : ErrTexts]

\* lines 87-94 and 101-104: the child has exited, its output is read
ExitAsync(a, x) ==
    IF x.rc # 0
    THEN IF DecodeFails(x.err)
         THEN Res("SSHConnectionError:execute", <<>>, 0)
         ELSE Res(Classify(a, Strip(x.err)), Strip(x.err), 0)
    ELSE IF DecodeFails(x.out)
         THEN Res("SSHConnectionError:execute", <<>>, 0)
         ELSE Res("ok", Strip(x.out), 0)

\* lines 243-256 and 260-263: subprocess.run(text=True) decodes both streams
\* before it returns
ExitSync(a, x) ==
    IF DecodeFails(x.out) \/ DecodeFails(x.err)
    THEN Res("SSHConnectionError:execute", <<>>, 0)
    ELSE IF x.rc # 0
         THEN Res(Classify(a, Strip(Translate(x.err))), Strip(Translate(x.err)), 0)
         ELSE Res("ok", Strip(Translate(x.out)), 0)

\* line 51 raises HostNotFoundError; get_host_config at line 224 raises ValueError
UnknownAlias(st) ==
    Res(IF st = "async" THEN "HostNotFoundError" ELSE "ValueError", <<>>, 0)

\* lines 101-104 and 260-263: any other exception becomes SSHConnectionError
SpawnError == Res("SSHConnectionError:execute", <<>>, 0)

ExitResult(st, a, x) == IF st = "async" THEN ExitAsync(a, x) ELSE ExitSync(a, x)

\* lines 96-100 and 258-259; gone: process.kill() finds the child collected
TimeoutResult(gone, tm) ==
    IF gone
    THEN Res("ProcessLookupError", <<>>, 0)
    ELSE Res("DockerCommandError:timeout", <<>>, tm)

\* how one pool call can go: the child cannot be started, the timeout
\* expires, or the child exits with some status
PoolEvents(st, tm) ==
    {[how |-> "spawn_error", x |-> NoExit]}
      \cup (IF tm # NoTimeout THEN {[how |-> "timeout", x |-> NoExit]} ELSE {})
      \cup (IF tm # NoTimeout /\ st = "async" THEN {[how |-> "gone", x |-> NoExit]} ELSE {})
      \cup {[how |-> "exit", x |-> x] : x \in ExitStatus}

\* what execute_docker_command / execute_docker_command_sync delivers then
PoolResult(st, a, tm, e) ==
    IF a \notin Hosts THEN UnknownAlias(st)
    ELSE CASE e.how = "spawn_error" -> SpawnError
           [] e.how = "timeout" -> TimeoutResult(FALSE, tm)
           [] e.how = "gone" -> TimeoutResult(TRUE, tm)
           [] OTHER -> ExitResult(st, a, e.x)

Outcome(a, x) == ExitAsync(a, x).kind
OutcomeSync(a, x) == ExitSync(a, x).kind

\* the kinds of result a completed child can lead to, per host
ExitKinds == [a \in Hosts |-> {Outcome(a, x) : x \in ExitStatus}]
ExitKindsSync == [a \in Hosts |-> {OutcomeSync(a, x) : x \in ExitStatus}]

\* ---- execute_docker_command (non-blocking), lines 50-104
ExEnter(t) ==
    /\ cur = t
    /\ pc[t] = "ex_enter"
    /\ IF arg[t] \notin Hosts
       THEN Done(t, "HostNotFoundError")
       ELSE /\ pc' = [pc EXCEPT ![t] = "ex_spawn"]
            /\ cur' = 0
            /\ UNCHANGED <<result>>
    /\ UNCHANGED <<streams, procs, lp, sp, keys, op, arg, tmo>>
    /\ UNCHANGED fnVars

\* create_subprocess_exec returns; the coroutine goes on to wait_for(communicate)
ExSpawnOk(t) ==
    /\ cur = 0
    /\ pc[t] = "ex_spawn"
    /\ Used # Pids
    /\ procs' = [procs EXCEPT ![NextPid] = NewProc(arg[t], "exec")]
    /\ lp' = [lp EXCEPT ![t] = NextPid]
    /\ pc' = [pc EXCEPT ![t] = "ex_comm"]
    /\ UNCHANGED <<streams, sp, keys, op, arg, tmo, result, cur>>
    /\ UNCHANGED fnVars

\* create_subprocess_exec raises: except Exception -> SSHConnectionError
ExSpawnFail(t) ==
    /\ cur = 0
    /\ pc[t] = "ex_spawn"
    /\ Done(t, "SSHConnectionError:execute")
    /\ UNCHANGED <<streams, procs, lp, sp, keys, op, arg, tmo>>
    /\ UNCHANGED fnVars

\* communicate() returns within the timeout: lines 87-94
ExCommReturn(t) ==
    /\ cur = 0
    /\ pc[t] = "ex_comm"
    /\ procs[lp[t]].st = "reaped"
    /\ \E k \in ExitKinds[arg[t]] : Done(t, k)
    /\ UNCHANGED <<streams, procs, lp, sp, keys, op, arg, tmo>>
    /\ UNCHANGED fnVars

\* a variant that raises the timeout error right after kill()
ExTimeoutNoWait(t) ==
    /\ cur = 0
    /\ pc[t] = "ex_comm"
    /\ tmo[t]
    /\ procs' = Signal(lp[t], "KILL")
    /\ Done(t, "DockerCommandError:timeout")
    /\ UNCHANGED <<streams, lp, sp, keys, op, arg, tmo>>
    /\ UNCHANGED fnVars

\* wait_for raises TimeoutError: lines 96-100, process.kill() then await wait()
ExTimeout(t) ==
    /\ cur = 0
    /\ pc[t] = "ex_comm"
    /\ tmo[t]
    /\ \E o \in KillOutcomes(lp[t]) :
         IF o = "ProcessLookupError"
         THEN Done(t, "ProcessLookupError") /\ UNCHANGED procs
         ELSE /\ procs' = IF o = "sent" THEN Signal(lp[t], "KILL") ELSE procs
              /\ IF procs[lp[t]].st = "reaped"
                 THEN Done(t, "DockerCommandError:timeout")
                 ELSE /\ pc' = [pc EXCEPT ![t] = "ex_reap"]
                      /\ UNCHANGED <<result, cur>>
    /\ UNCHANGED <<streams, lp, sp, keys, op, arg, tmo>>
    /\ UNCHANGED fnVars

\* line 99-100: wait() returns, the timeout error is raised
ExReapReturn(t) ==
    /\ cur = 0
    /\ pc[t] = "ex_reap"
    /\ procs[lp[t]].st = "reaped"
    /\ Done(t, "DockerCommandError:timeout")
    /\ UNCHANGED <<streams, procs, lp, sp, keys, op, arg, tmo>>
    /\ UNCHANGED fnVars

\* ---- execute_docker_command_sync (blocking), lines 223-263.  The calling
\* ---- thread keeps the loop (cur = t) until the call returns.
SyEnter(t) ==
    /\ cur = t
    /\ pc[t] = "sy_enter"
    /\ IF arg[t] \notin Hosts
       THEN Done(t, "ValueError")
       ELSE /\ pc' = [pc EXCEPT ![t] = "sy_spawn"]
            /\ UNCHANGED <<result, cur>>
    /\ UNCHANGED <<streams, procs, lp, sp, keys, op, arg, tmo>>
    /\ UNCHANGED fnVars

\* subprocess.run starts the child
SySpawnOk(t) ==
    /\ cur = t
    /\ pc[t] = "sy_spawn"
    /\ Used # Pids
    /\ procs' = [procs EXCEPT ![NextPid] = NewProc(arg[t], "exec_sync")]
    /\ lp' = [lp EXCEPT ![t] = NextPid]
    /\ pc' = [pc EXCEPT ![t] = "sy_comm"]
    /\ UNCHANGED <<streams, sp, keys, op, arg, tmo, result, cur>>
    /\ UNCHANGED fnVars

\* subprocess.run raises OSError: except Exception -> SSHConnectionError
SySpawnFail(t) ==
    /\ cur = t
    /\ pc[t] = "sy_spawn"
    /\ Done(t, "SSHConnectionError:execute")
    /\ UNCHANGED <<streams, procs, lp, sp, keys, op, arg, tmo>>
    /\ UNCHANGED fnVars

\* subprocess.run collects the exited child and returns: lines 250-256
SyCommReturn(t) ==
    /\ cur = t
    /\ pc[t] = "sy_comm"
    /\ procs[lp[t]].st = "exited"
    /\ procs' = [procs EXCEPT ![lp[t]].st = "reaped"]
    /\ \E k \in ExitKindsSync[arg[t]] : Done(t, k)
    /\ UNCHANGED <<streams, lp, sp, keys, op, arg, tmo>>
    /\ UNCHANGED fnVars

\* the timeout expires inside subprocess.run, which kills the child and waits
\* for it before it re-raises TimeoutExpired
SyTimeout(t) ==
    /\ cur = t
    /\ pc[t] = "sy_comm"
    /\ tmo[t]
    /\ procs' = IF procs[lp[t]].st = "running" THEN Signal(lp[t], "KILL") ELSE procs
    /\ pc' = [pc EXCEPT ![t] = "sy_reap"]
    /\ UNCHANGED <<streams, lp, sp, keys, op, arg, tmo, result, cur>>
    /\ UNCHANGED fnVars

\* lines 258-259: except subprocess.TimeoutExpired
SyReapReturn(t) ==
    /\ cur = t
    /\ pc[t] = "sy_reap"
    /\ procs[lp[t]].st = "exited"
    /\ procs' = [procs EXCEPT ![lp[t]].st = "reaped"]
    /\ Done(t, "DockerCommandError:timeout")
    /\ UNCHANGED <<streams, lp, sp, keys, op, arg, tmo>>
    /\ UNCHANGED fnVars

\* ---- SSHDockerClient.close, client.py lines 81-83: self.connection_pool.close()
ClientClose(t) ==
    /\ cur = t
    /\ pc[t] = "close_enter"
    /\ "close" \notin PoolMethods
    /\ Done(t, "AttributeError")
    /\ UNCHANGED <<streams, procs, lp, sp, keys, op, arg, tmo>>
    /\ UNCHANGED fnVars

\* ---- SSHDockerClient.docker_events, client.py lines 255-261: the first
\* ---- iteration evaluates self.connection_pool.stream_docker_events(...)
DockerEvents(t) ==
    /\ cur = t
    /\ pc[t] = "de_enter"
    /\ "stream_docker_events" \notin PoolMethods
    /\ Done(t, "AttributeError")
    /\ UNCHANGED <<streams, procs, lp, sp, keys, op, arg, tmo>>
    /\ UNCHANGED fnVars

\* ---- the awaiting task is cancelled: CancelledError is raised at its await
AwaitPcs == {"stop_wait", "st_spawn", "ex_spawn", "ex_comm", "ex_reap"}

Cancel(t) ==
    /\ cur = 0
    /\ pc[t] \in AwaitPcs
    /\ Done(t, "CancelledError")
    /\ keys' = [keys EXCEPT ![t] = <<>>]
    /\ UNCHANGED <<streams, procs, lp, sp, op, arg, tmo>>
    /\ UNCHANGED fnVars

\* ---- the environment: a child exits (killed, or on its own)
ProcExit(p) ==
    /\ IF cur = 0 THEN TRUE ELSE pc[cur] \in {"sy_comm", "sy_reap"}
    /\ procs[p].st = "running"
    /\ procs' = [procs EXCEPT ![p].st = "exited"]
    /\ UNCHANGED <<streams, pc, op, arg, tmo, lp, sp, keys, result, cur>>
    /\ UNCHANGED fnVars

\* the loop's child watcher collects the exit of a process asyncio spawned
LoopReap(p) ==
    /\ cur = 0
    /\ procs[p].st = "exited"
    /\ procs[p].kind # "exec_sync"
    /\ procs' = Collect([procs EXCEPT ![p].st = "reaped"], streams, lp, sp)
    /\ UNCHANGED <<streams, pc, op, arg, tmo, lp, sp, keys, result, cur>>
    /\ UNCHANGED fnVars

\* ---------------------------------------------------------------------
\* One execute call, from its arguments to the value it delivers: the
\* non-blocking execute_docker_command ("async") and the blocking
\* execute_docker_command_sync ("sync"), on one thread of control.
\* ---------------------------------------------------------------------
Styles == {"async", "sync"}

\* lines 50-57 and 224-228: the alias is resolved and the command string is
\* built; the argv is ready when the call reaches the spawn
CallEnter ==
    /\ call.stage = "none"
    /\ \E st \in Styles, a \in Aliases, c \in Commands, tm \in Timeouts :
         call' =
           IF a \notin Hosts
           THEN [NoCall EXCEPT !.stage = "returned", !.style = st, !.alias = a,
                    !.cmd = c, !.tm = tm, !.how = "unknown",
                    !.res = UnknownAlias(st)]
           ELSE [NoCall EXCEPT !.stage = "built", !.style = st, !.alias = a,
                    !.cmd = c, !.tm = tm,
                    !.argv = IF st = "async" THEN BuildAsync(a, c) ELSE BuildSync(a, c)]
    /\ UNCHANGED <<lifeVars, req, pureVars>>

\* create_subprocess_exec / subprocess.run cannot start the child
CallSpawnFail ==
    /\ call.stage = "built"
    /\ call' = [call EXCEPT !.stage = "returned", !.how = "spawn_error",
                            !.res = SpawnError]
    /\ UNCHANGED <<lifeVars, req, pureVars>>

\* the child is started with the argv; the command string is not used again
CallSpawn ==
    /\ call.stage = "built"
    /\ call' = [call EXCEPT !.stage = "running", !.n = @ + 1,
                            !.cmd = <<>>, !.argv = <<>>]
    /\ UNCHANGED <<lifeVars, req, pureVars>>

\* a variant that runs the command once more after a nonzero exit
CallExitRetry ==
    /\ call.stage = "running"
    /\ \E x \in ExitStatus :
         call' = IF x.rc # 0 /\ call.n < 2
                 THEN [call EXCEPT !.n = @ + 1]
                 ELSE [call EXCEPT !.stage = "returned", !.how = "exit", !.x = x,
                                   !.res = ExitResult(call.style, call.alias, x)]
    /\ UNCHANGED <<lifeVars, req, pureVars>>

\* the child exits within the timeout, lines 87-94 and 250-256
CallExit ==
    /\ call.stage = "running"
    /\ \E x \in ExitStatus :
         call' = [call EXCEPT !.stage = "returned", !.how = "exit", !.x = x,
                              !.res = ExitResult(call.style, call.alias, x)]
    /\ UNCHANGED <<lifeVars, req, pureVars>>

\* the timeout expires, lines 96-100 and 258-259; gone: the child exited and
\* was collected before process.kill() ran (non-blocking style only)
CallTimeout ==
    /\ call.stage = "running"
    /\ call.tm # NoTimeout
    /\ \E gone \in BOOLEAN :
         /\ gone => call.style = "async"
         /\ call' = [call EXCEPT !.stage = "returned",
                                 !.how = IF gone THEN "gone" ELSE "timeout",
                                 !.res = TimeoutResult(gone, call.tm)]
    /\ UNCHANGED <<lifeVars, req, pureVars>>

\* the caller has the result
CallReturn ==
    /\ call.stage = "returned"
    /\ call' = NoCall
    /\ UNCHANGED <<lifeVars, req, pureVars>>

NextCall ==
    \/ CallEnter
    \/ CallSpawnFail
    \/ CallSpawn
    \/ CallExit
    \/ CallTimeout
    \/ CallReturn

\* ---------------------------------------------------------------------
\* Client requests that wrap pool calls: inspect_container(_sync) and
\* list_containers(_sync), client.py.  setup_ssh() (the SSH configuration
\* writer) has run.  Neither passes a timeout, so the pool's default holds.
\* ---------------------------------------------------------------------
\* the pool call of a configured host meets one of the events; for an unknown
\* alias it fails before anything can happen
EventsFor(st, a) == IF a \in Hosts THEN PoolEvents(st, DefaultTimeout) ELSE {NoEvent}

NotBlank(x) == x # "ws"
IsNewline(x) == x \in {"crlf", "lf"}
NotSpace(x) == x \notin White

\* str.split("\n"); a "\r" left at the end of a line is JSON whitespace
RECURSIVE SplitLines(_, _, _)
SplitLines(s, lines, line) ==
    IF s = <<>>
    THEN Append(lines, line)
    ELSE IF IsNewline(Head(s))
         THEN SplitLines(Tail(s), Append(lines, line), <<>>)
         ELSE SplitLines(Tail(s), lines, Append(line, Head(s)))

\* json.loads(line) gives an object
IsObjectLine(l) == SelectSeq(l, NotBlank) = <<"{}">>

\* utils.parse_docker_ps_json: the objects of the lines that parse
ParsePs(v) ==
    IF Strip(v) = <<>>
    THEN <<>>
    ELSE SelectSeq(SplitLines(Strip(v), <<>>, <<>>), IsObjectLine)

\* utils.parse_docker_inspect: the object, or None when the text is not JSON
ParseInspect(v) == IF SelectSeq(v, NotSpace) = <<"{}">> THEN "dict" ELSE "None"

\* the exceptions `except Exception` catches
ExceptionKinds ==
    { "HostNotFoundError", "ValueError", "ProcessLookupError",
      "SSHConnectionError:connection", "SSHConnectionError:execute",
      "DockerCommandError:command", "DockerCommandError:timeout" }

\* `except DockerCommandError as e`
IsDockerCommandError(r) ==
    r.kind \in {"DockerCommandError:command", "DockerCommandError:timeout"}

\* inspect_container, client.py lines 203-215 and 486-497
InspectResult(r) ==
    IF r.kind = "ok"
    THEN Res("ok", <<ParseInspect(r.val)>>, 0)
    ELSE IF IsDockerCommandError(r) /\ Contains(r.val, "No such object")
         THEN Res("ok", <<"None">>, 0)
         ELSE r

ReqInspect ==
    /\ req.stage = "none"
    /\ \E st \in Styles, a \in Aliases :
         \E e \in EventsFor(st, a) :
            req' = [NoReq EXCEPT !.stage = "returned", !.op = "inspect",
                       !.style = st, !.host = a, !.ev = e,
                       !.res = InspectResult(PoolResult(st, a, DefaultTimeout, e))]
    /\ UNCHANGED <<lifeVars, call, pureVars>>

\* HostsConfig.get_enabled_hosts().keys(): both hosts are enabled
EnabledHosts == <<"local1", "remote1">>

\* list_containers, client.py lines 162-164 and 454-455: hosts_to_check
ReqList ==
    /\ req.stage = "none"
    /\ \E st \in Styles, h \in Aliases \cup {"None"} :
         req' = [NoReq EXCEPT !.stage = "loop", !.op = "list", !.style = st,
                    !.host = h,
                    !.todo = IF h = "None" THEN EnabledHosts ELSE <<h>>]
    /\ UNCHANGED <<lifeVars, call, pureVars>>

\* a variant that lets the failure of a host end the request
ListStepAbort ==
    /\ req.stage = "loop"
    /\ req.todo # <<>>
    /\ LET a == Head(req.todo)
       IN  \E e \in EventsFor(req.style, a) :
              LET r == PoolResult(req.style, a, DefaultTimeout, e)
                  found == IF r.kind = "ok" THEN ParsePs(r.val) ELSE <<>>
              IN  IF r.kind = "ok"
                  THEN req' = [req EXCEPT
                          !.todo = Tail(@),
                          !.seen = Append(@, [alias |-> a, kind |-> r.kind,
                                              cnt |-> Len(found)]),
                          !.acc = @ \o [i \in 1..Len(found) |-> a]]
                  ELSE req' = [req EXCEPT !.stage = "returned", !.res = r]
    /\ UNCHANGED <<lifeVars, call, pureVars>>

\* one turn of the loop, lines 166-184 and 457-475: the pool call, then the
\* containers of the host are tagged and added, or the exception is printed
\* and the loop goes on
ListStep ==
    /\ req.stage = "loop"
    /\ req.todo # <<>>
    /\ LET a == Head(req.todo)
       IN  \E e \in EventsFor(req.style, a) :
              LET r == PoolResult(req.style, a, DefaultTimeout, e)
                  found == IF r.kind = "ok" THEN ParsePs(r.val) ELSE <<>>
              IN  IF r.kind = "ok" \/ r.kind \in ExceptionKinds
                  THEN req' = [req EXCEPT
                          !.todo = Tail(@),
                          !.seen = Append(@, [alias |-> a, kind |-> r.kind,
                                              cnt |-> Len(found)]),
                          !.acc = @ \o [i \in 1..Len(found) |-> a]]
                  ELSE req' = [req EXCEPT !.stage = "returned", !.res = r]
    /\ UNCHANGED <<lifeVars, call, pureVars>>

\* line 186 / 476: return containers
ListDone ==
    /\ req.stage = "loop"
    /\ req.todo = <<>>
    /\ req' = [req EXCEPT !.stage = "returned", !.res = Res("ok", req.acc, 0)]
    /\ UNCHANGED <<lifeVars, call, pureVars>>

\* utils.parse_docker_events_json, lines 76-80: json.loads(line.strip()); the
\* dict when the line is a JSON object, None when it is any other JSON value
\* or not JSON
ParseDockerEventsJson(l) == IF Strip(l) = <<"{}">> THEN "dict" ELSE "None"

\* SSHDockerClient.docker_events, client.py lines 255-261, iterated by a
\* consumer while the docker events process of the host writes `written`:
\* the first iteration evaluates self.connection_pool.stream_docker_events
ReqEvents ==
    /\ req.stage = "none"
    /\ "stream_docker_events" \notin PoolMethods
    /\ \E a \in Aliases, written \in OutTexts :
         req' = [NoReq EXCEPT !.stage = "returned", !.op = "docker_events",
                    !.host = a,
                    !.ev = [how |-> "exit",
                            x |-> [rc |-> 0, out |-> written, err |-> <<>>]],
                    !.res = Res("AttributeError", <<>>, 0)]
    /\ UNCHANGED <<lifeVars, call, pureVars>>

\* the caller has the result
ReqReturn ==
    /\ req.stage = "returned"
    /\ req' = NoReq
    /\ UNCHANGED <<lifeVars, call, pureVars>>

NextClient ==
    \/ ReqInspect
    \/ ReqList
    \/ ReqEvents
    \/ ListStep
    \/ ListDone
    \/ ReqReturn

\* ---------------------------------------------------------------------
\* One execute_docker_command call while the host registry changes under
\* it: SSHDockerClient.add_host stores a new HostConfig under an alias of
\* the HostsConfig the pool reads.  A stored configuration is named by the
\* host whose fields (is_local, user, hostname) it carries.
\* ---------------------------------------------------------------------
\* the sub-commands followed here
RunCommands == { <<"ps">>, <<"docker", "ws", "ps">> }

\* the exits followed here: any return code and stderr, nothing on stdout
RunExits == {x \in ExitStatus : x.out = <<>>}

\* client.py lines 543-546: self.hosts_config.hosts[alias] = HostConfig(**kwargs);
\* the write of the SSH configuration file that follows is left out
AddHost ==
    /\ \E a \in Aliases, h \in Hosts :
         /\ hosts[a] # h
         /\ hosts' = [hosts EXCEPT ![a] = h]
    /\ UNCHANGED <<lifeVars, call, req, run, flt, dep, extVars>>

\* connection.py lines 50-85: the membership test, host_config bound once by
\* get_host_config, the argv built from it, the child started
RunEnter ==
    /\ run.stage = "none"
    /\ \E a \in Aliases, c \in RunCommands :
         run' =
           IF hosts[a] = NoHost
           THEN [NoRun EXCEPT !.stage = "returned", !.alias = a, !.cmd = c,
                    !.res = UnknownAlias("async")]
           ELSE [NoRun EXCEPT !.stage = "running", !.alias = a, !.cmd = c,
                    !.cfg = hosts[a], !.argv = BuildAsync(hosts[a], c)]
    /\ UNCHANGED <<lifeVars, call, req, hosts, flt, dep, extVars>>

\* a variant that looks the alias up again when it classifies the exit
RunExitReread ==
    /\ run.stage = "running"
    /\ \E x \in RunExits :
         run' = [run EXCEPT !.stage = "returned", !.x = x,
                            !.res = ExitAsync(hosts[run.alias], x)]
    /\ UNCHANGED <<lifeVars, call, req, hosts, flt, dep, extVars>>

\* connection.py lines 87-94: the exit is classified with the host_config
\* bound at line 53
RunExit ==
    /\ run.stage = "running"
    /\ \E x \in RunExits :
         run' = [run EXCEPT !.stage = "returned", !.x = x,
                            !.res = ExitAsync(run.cfg, x)]
    /\ UNCHANGED <<lifeVars, call, req, hosts, flt, dep, extVars>>

\* the caller has the result
RunReturn ==
    /\ run.stage = "returned"
    /\ run' = NoRun
    /\ UNCHANGED <<lifeVars, call, req, hosts, flt, dep, extVars>>

NextResolve ==
    \/ AddHost
    \/ RunEnter
    \/ RunExit
    \/ RunReturn

\* ---------------------------------------------------------------------
\* SSHDockerClient._expand_filter_shortcuts, client.py lines 87-128.  A dict
\* is the sequence of its items in insertion order, keys distinct; a filter
\* value is a string, a sequence of lexemes.
\* ---------------------------------------------------------------------
\* the keys of the table at lines 100-115
ShortcutKeys ==
    { "SERVICE", "PROJECT", "COMPOSE_FILE", "STATUS", "IMAGE", "NETWORK",
      "VOLUME", "NAME", "ID" }

\* the filter keys callers pass: the shortcuts, other spellings of one, and
\* Docker's own keys
FilterKeys == ShortcutKeys \cup {"service", "Service", "label", "status"}
FilterValues == { <<"web">>, <<"running">> }
FilterItems == [key : FilterKeys, value : FilterValues]

DistinctKeys(d) ==
    \A i \in 1..Len(d), j \in 1..Len(d) : d[i].key = d[j].key => i = j

\* Optional[Dict[str, str]]: None, or a dict of up to MaxFilters items
FilterArgs ==
    {NoFilters} \cup
    { [none |-> FALSE, items |-> d] :
         d \in {e \in SeqsUpTo(FilterItems, MaxFilters) : DistinctKeys(e)} }

\* shortcuts[key](value), lines 100-115
Shortcut(k, v) ==
    CASE k = "SERVICE" ->
            [key |-> "label", value |-> <<"com.docker.compose.service=">> \o v]
      [] k = "PROJECT" ->
            [key |-> "label", value |-> <<"com.docker.compose.project=">> \o v]
      [] k = "COMPOSE_FILE" ->
            [key |-> "label", value |-> <<"com.docker.compose.config-file=">> \o v]
      [] k = "STATUS"  -> [key |-> "status", value |-> v]
      [] k = "IMAGE"   -> [key |-> "ancestor", value |-> v]
      [] k = "NETWORK" -> [key |-> "network", value |-> v]
      [] k = "VOLUME"  -> [key |-> "volume", value |-> v]
      [] k = "NAME"    -> [key |-> "name", value |-> v]
      [] k = "ID"      -> [key |-> "id", value |-> v]

\* d[k] = v on a dict: the value of an existing key is replaced in place, a
\* new key goes to the end
DictSet(d, k, v) ==
    IF \E i \in 1..Len(d) : d[i].key = k
    THEN [i \in 1..Len(d) |->
            IF d[i].key = k THEN [key |-> k, value |-> v] ELSE d[i]]
    ELSE Append(d, [key |-> k, value |-> v])

\* the loop of lines 119-126 over filters.items()
RECURSIVE ExpandItems(_, _)
ExpandItems(items, expanded) ==
    IF items = <<>>
    THEN expanded
    ELSE LET e == Head(items)
             n == IF e.key \in ShortcutKeys THEN Shortcut(e.key, e.value) ELSE e
         IN  ExpandItems(Tail(items), DictSet(expanded, n.key, n.value))

\* lines 96-97: `if not filters: return filters`; line 128: return expanded
ExpandFilterShortcuts(f) ==
    IF f.none \/ f.items = <<>>
    THEN f
    ELSE [none |-> FALSE, items |-> ExpandItems(f.items, <<>>)]

\* a caller expands a filters argument
FilterCall ==
    /\ flt.stage = "none"
    /\ \E f \in FilterArgs :
         flt' = [stage |-> "returned", in |-> f, out |-> ExpandFilterShortcuts(f)]
    /\ UNCHANGED <<lifeVars, call, req, hosts, run, dep, extVars>>

\* the caller has the value
FilterReturn ==
    /\ flt.stage = "returned"
    /\ flt' = NoFlt
    /\ UNCHANGED <<lifeVars, call, req, hosts, run, dep, extVars>>

NextFilter ==
    \/ FilterCall
    \/ FilterReturn

\* ---------------------------------------------------------------------
\* SSHDockerClient.analyze_compose_deployment, client.py lines 263-428, from
\* the containers found for each service of the compose file (the lookups of
\* lines 343-382, each a list_containers call) to the report.
\* ---------------------------------------------------------------------
\* the services a compose file may define
ServiceNames == {"web", "api"}

\* a container as docker ps reports it: its ID and its State
ContainerIds == {"c1", "c2"}
ContainerStates == {"running", "Running", "exited"}
Containers == [ID : ContainerIds, State : ContainerStates]

\* matching_containers of every service of the file, line 344-382
Matchings ==
    UNION { [S -> SeqsUpTo(Containers, MaxMatched)] : S \in SUBSET ServiceNames }

\* lines 384-390: the first container of every ID, in order
RECURSIVE Dedupe(_, _, _)
Dedupe(matching_containers, seen_ids, unique_containers) ==
    IF matching_containers = <<>>
    THEN unique_containers
    ELSE LET container == Head(matching_containers)
         IN  IF container.ID \notin seen_ids
             THEN Dedupe(Tail(matching_containers), seen_ids \cup {container.ID},
                         Append(unique_containers, container))
             ELSE Dedupe(Tail(matching_containers), seen_ids, unique_containers)

\* lines 399-400: c.get('State', '').lower() == 'running'
RunningCount(unique_containers) ==
    Cardinality({i \in 1..Len(unique_containers) :
                    LowerItem(unique_containers[i].State) = "running"})

\* lines 394-412
ServiceState(unique_containers) ==
    IF unique_containers = <<>>
    THEN "not_deployed"
    ELSE LET running_count == RunningCount(unique_containers)
             stopped_count == Len(unique_containers) - running_count
         IN  IF running_count = Len(unique_containers) THEN "running"
             ELSE IF stopped_count = Len(unique_containers) THEN "stopped"
             ELSE "mixed"

\* lines 335-341 and 392-414: service_info of one service
ServiceInfo(matching_containers) ==
    [containers |-> Dedupe(matching_containers, {}, <<>>),
     state |-> ServiceState(Dedupe(matching_containers, {}, <<>>))]

\* lines 297-307 and 329-428: the report
AnalyzeComposeDeployment(matched) ==
    LET services == [s \in DOMAIN matched |-> ServiceInfo(matched[s])]
        any_running ==
            \E s \in DOMAIN matched : services[s].state \in {"running", "mixed"}
        any_stopped ==
            \E s \in DOMAIN matched : services[s].state \in {"stopped", "mixed"}
        any_not_deployed ==
            \E s \in DOMAIN matched : services[s].state = "not_deployed"
    IN  [services |-> services,
         actions_available |->
            [up |-> any_stopped \/ any_not_deployed,
             down |-> any_running,
             restart |-> any_running,
             start |-> any_stopped /\ ~any_not_deployed,
             stop |-> any_running]]

\* a caller analyses a compose file on a host
DeployCall ==
    /\ dep.stage = "none"
    /\ \E m \in Matchings :
         dep' = [stage |-> "returned", matched |-> m,
                 out |-> AnalyzeComposeDeployment(m)]
    /\ UNCHANGED <<lifeVars, call, req, hosts, run, flt, extVars>>

\* the caller has the report
DeployReturn ==
    /\ dep.stage = "returned"
    /\ dep' = NoDep
    /\ UNCHANGED <<lifeVars, call, req, hosts, run, flt, extVars>>

NextDeploy ==
    \/ DeployCall
    \/ DeployReturn

\* ---------------------------------------------------------------------
\* A client over a host registry in which hosts may be disabled
\* (HostConfig.enabled, models.py line 17): which hosts its operations spawn
\* a docker process against.
\* ---------------------------------------------------------------------
\* HostsConfig.hosts in insertion order, config.py line 17
HostOrder == <<"local1", "remote1">>

\* HostsConfig.get_enabled_hosts().keys(), config.py lines 63-70
GetEnabledHosts(en) ==
    LET IsEnabled(a) == en[a]
    IN  SelectSeq(HostOrder, IsEnabled)

\* the operations that take a host: the client's, and the pool's
\* start_event_stream
ContactOps ==
    { "list_containers", "list_containers_sync", "inspect_container",
      "inspect_container_sync", "execute", "execute_sync", "docker_events",
      "start_event_stream" }
ListOps == {"list_containers", "list_containers_sync"}

\* client.py lines 164 and 454: hosts_to_check; every other operation hands
\* its host argument to the pool
HostsToCheck(o, h, en) ==
    IF o \in ListOps /\ h = "None" THEN GetEnabledHosts(en) ELSE <<h>>

\* the pool starts a child for the alias: connection.py lines 50-53 and 224
\* (membership / get_host_config, which do not read `enabled`), 147;
\* docker_events fails on the missing pool method before any child
ContactSpawns(o, a) ==
    /\ a \in Hosts
    /\ o = "docker_events" => "stream_docker_events" \in PoolMethods

\* the registry is loaded: any host may be disabled
ConLoad ==
    /\ con.stage = "none"
    /\ \E en \in [Hosts -> BOOLEAN] :
         con' = [NoCon EXCEPT !.stage = "loaded", !.enabled = en]
    /\ UNCHANGED <<oldVars, ssh, lst>>

\* an operation is called with a host argument
ConCall ==
    /\ con.stage = "loaded"
    /\ \E o \in ContactOps, h \in Aliases \cup {"None"} :
         /\ h = "None" => o \in ListOps
         /\ con' = [con EXCEPT !.stage = "loop", !.op = o, !.host = h,
                       !.todo = HostsToCheck(o, h, con.enabled),
                       !.spawned = <<>>]
    /\ UNCHANGED <<oldVars, ssh, lst>>

\* the pool call for the next host of the operation
ConStep ==
    /\ con.stage = "loop"
    /\ con.todo # <<>>
    /\ con' = [con EXCEPT
                 !.todo = Tail(@),
                 !.spawned = IF ContactSpawns(con.op, Head(con.todo))
                             THEN Append(@, Head(con.todo))
                             ELSE @]
    /\ UNCHANGED <<oldVars, ssh, lst>>

\* the operation is over
ConReturn ==
    /\ con.stage = "loop"
    /\ con.todo = <<>>
    /\ con' = [NoCon EXCEPT !.stage = "loaded", !.enabled = con.enabled]
    /\ UNCHANGED <<oldVars, ssh, lst>>

NextContact ==
    \/ ConLoad
    \/ ConCall
    \/ ConStep
    \/ ConReturn

\* ---------------------------------------------------------------------
\* list_containers (client.py lines 130-186) and list_containers_sync
\* (lines 432-476) called with the same arguments while the hosts behave the
\* same way for both: the sub-command each builds, the hosts each visits and
\* the containers each returns.  Both hosts are enabled.
\* ---------------------------------------------------------------------
\* the filters arguments followed here: None, {} and the dicts of one item
ListFilters == {f \in FilterArgs : Len(f.items) <= 1}

\* lines 157-159 and 447-449: cmd += f' --filter "{key}={value}"' per item
RECURSIVE FilterFlags(_)
FilterFlags(items) ==
    IF items = <<>>
    THEN <<>>
    ELSE <<" --filter \"", Head(items).key, "=">> \o Head(items).value
            \o <<"\"">> \o FilterFlags(Tail(items))

\* lines 152-159 and 442-449: the sub-command string built from the flag and
\* from the filters the method uses
ListCommand(all_containers, f) ==
    <<"ps --format '{{json .}}'">>
       \o (IF all_containers THEN <<" -a">> ELSE <<>>)
       \o (IF f.none THEN <<>> ELSE FilterFlags(f.items))

\* line 149: list_containers expands the shortcuts; list_containers_sync
\* uses its filters argument as it is (line 447)
FiltersUsed(st, f) == IF st = "async" THEN ExpandFilterShortcuts(f) ELSE f

\* lines 164 and 454
ListHosts(h) == IF h = "None" THEN EnabledHosts ELSE <<h>>

\* lines 168-184 and 458-474: the containers one host adds, tagged with the
\* alias; nothing when the pool call raises
HostContainers(st, a, e) ==
    LET r == PoolResult(st, a, DefaultTimeout, e)
    IN  IF r.kind = "ok" THEN [k \in 1..Len(ParsePs(r.val)) |-> a] ELSE <<>>

\* both methods are called with the same arguments
PairCall ==
    /\ lst.stage = "none"
    /\ \E h \in Aliases \cup {"None"}, all_containers \in BOOLEAN,
          f \in ListFilters :
         lst' = [NoLst EXCEPT
                   !.stage = "loop", !.host = h, !.all = all_containers,
                   !.filters = f,
                   !.cmd = [st \in Styles |->
                              ListCommand(all_containers, FiltersUsed(st, f))],
                   !.hosts = [st \in Styles |-> ListHosts(h)]]
    /\ UNCHANGED <<oldVars, ssh, con>>

\* one turn of both loops: the host answers both calls the same way
PairStep ==
    /\ lst.stage = "loop"
    /\ lst.i <= Len(lst.hosts.async)
    /\ lst.i <= Len(lst.hosts.sync)
    /\ \E e \in EventsFor("sync", lst.hosts.async[lst.i]) :
         lst' = [lst EXCEPT
                   !.i = @ + 1,
                   !.out = [st \in Styles |->
                              lst.out[st] \o
                                HostContainers(st, lst.hosts[st][lst.i], e)]]
    /\ UNCHANGED <<oldVars, ssh, con>>

\* lines 186 and 476: both return their containers
PairDone ==
    /\ lst.stage = "loop"
    /\ lst.i > Len(lst.hosts.async)
    /\ lst' = [lst EXCEPT !.stage = "returned"]
    /\ UNCHANGED <<oldVars, ssh, con>>

\* the caller has both results
PairReturn ==
    /\ lst.stage = "returned"
    /\ lst' = NoLst
    /\ UNCHANGED <<oldVars, ssh, con>>

NextList ==
    \/ PairCall
    \/ PairStep
    \/ PairDone
    \/ PairReturn

\* ---------------------------------------------------------------------
\* The SSH directory: SSHDockerClient.setup_ssh (client.py lines 59-70) and
\* the SSHManager methods it calls (ssh_manager.py).  The text of the SSH
\* configuration file is a sequence of lexemes: "lf" a newline, "u1" / "u2"
\* a host entry the user wrote, "BEGIN" / "END" the marker lines of the
\* managed section, "hdr" its two comment lines, "host:<alias>" the entry
\* generated for a host (lines 126-135).
\* ---------------------------------------------------------------------
StartMarker == "BEGIN"   \* "# BEGIN SSH DOCKER CLIENT MANAGED HOSTS"
EndMarker   == "END"     \* "# END SSH DOCKER CLIENT MANAGED HOSTS"

\* lines 126-135: the lines of one host, joined
HostEntry(a) == IF a = "local1" THEN "host:local1" ELSE "host:remote1"

\* lines 122-137: the entry of every enabled host, each followed by ""
RECURSIVE HostLines(_)
HostLines(enabled_hosts) ==
    IF enabled_hosts = <<>>
    THEN <<>>
    ELSE <<HostEntry(Head(enabled_hosts)), "lf", "lf">>
            \o HostLines(Tail(enabled_hosts))

\* lines 117-139 and "\n".join(config_lines) of line 169
ManagedSection(enabled_hosts) ==
    <<StartMarker, "lf", "hdr", "lf", "lf">> \o HostLines(enabled_hosts)
       \o <<EndMarker>>

\* str.index: the place of the first occurrence
IndexOf(s, x) == CHOOSE i \in 1..Len(s) : s[i] = x /\ \A j \in 1..(i - 1) : s[j] # x

\* s[k:] of a text whose first k-1 characters end a lexeme: the character
\* skipped is a newline, or the first one of a line ("cut": what is left)
SkipOne(s) ==
    IF s = <<>> THEN <<>>
    ELSE IF Head(s) = "lf" THEN Tail(s)
    ELSE <<"cut">> \o Tail(s)

\* a variant that leaves the managed section in the text it returns
ReadExistingConfigKeep(f) ==
    IF f.exists THEN RStrip(f.text) ELSE <<>>

\* SSHManager._read_existing_config, lines 146-161
ReadExistingConfig(f) ==
    IF ~f.exists
    THEN <<>>
    ELSE IF Contains(f.text, StartMarker) /\ Contains(f.text, EndMarker)
         THEN LET start_idx == IndexOf(f.text, StartMarker)
                  end_idx == IndexOf(f.text, EndMarker)
              IN  RStrip(SubSeq(f.text, 1, start_idx - 1)
                           \o SkipOne(SubSeq(f.text, end_idx + 1, Len(f.text))))
         ELSE RStrip(f.text)

\* SSHManager._write_ssh_config, lines 163-172: the text written
WriteSshConfig(existing_config, config_lines) ==
    (IF existing_config # <<>> THEN existing_config \o <<"lf", "lf">> ELSE <<>>)
       \o config_lines \o <<"lf">>

\* SSHManager._generate_ssh_config, lines 101-144, on the directory d:
\* nothing without enabled hosts; write_text raises on a file that cannot
\* be written; else the file is rewritten and its mode set
GenerateSshConfig(d) ==
    IF d.enabled = <<>>
    THEN [d EXCEPT !.last = "skipped"]
    ELSE IF ~d.writable
         THEN [d EXCEPT !.last = "PermissionError"]
         ELSE [d EXCEPT
                 !.file = [exists |-> TRUE,
                           text |-> WriteSshConfig(ReadExistingConfig(d.file),
                                                   ManagedSection(d.enabled))],
                 !.gens = @ + 1,
                 !.writes = @ + 2,
                 !.last = "written"]

\* SSHManager._ensure_ssh_directory, lines 67-73: mkdir of the directory and
\* of its control directory, exist_ok
EnsureSshDirectory(d) ==
    [d EXCEPT !.dirs = "both",
              !.writes = @ + (CASE d.dirs = "none" -> 2
                                [] d.dirs = "ssh" -> 1
                                [] OTHER -> 0)]

\* SSHManager._validate_ssh_keys and _ensure_key_permissions, lines 75-99:
\* the key of the enabled hosts gets mode 600 when group or others have a
\* permission on it
ValidateSshKeys(d) ==
    IF d.enabled # <<>> /\ d.key = "0644"
    THEN [d EXCEPT !.key = "0600", !.writes = @ + 1]
    ELSE d

\* the callers of setup_ssh the model follows: the method itself and the
\* operations that call it first (lines 74, 146, 202, 233, 255)
SetupCallers ==
    { "setup_ssh", "__aenter__", "list_containers", "inspect_container",
      "execute", "docker_events" }

\* the configuration files a directory is found with: none, one of the
\* user's entries only, one written by an earlier run, the same with entries
\* of the user before and after the managed section
SetupFiles ==
    { NoFile,
      [exists |-> TRUE, text |-> <<"u1", "lf">>],
      [exists |-> TRUE, text |-> ManagedSection(HostOrder) \o <<"lf">>],
      [exists |-> TRUE,
       text |-> <<"u1", "lf", "lf">> \o ManagedSection(<<"local1">>)
                   \o <<"lf", "lf", "u2", "lf">>] }

\* the lists of enabled hosts a registry can have
EnabledLists == { GetEnabledHosts(en) : en \in [Hosts -> BOOLEAN] }

\* SSHDockerClient.__init__, lines 19-44, over a directory in some state
SshOpen ==
    /\ ssh.stage = "none"
    /\ \E f \in SetupFiles, l \in EnabledLists, ds \in {"none", "ssh", "both"},
          k \in {"missing", "0600", "0644"}, w \in BOOLEAN :
         ssh' = [NoSsh EXCEPT !.stage = "open", !.enabled = l, !.file = f,
                              !.orig = f, !.dirs = ds, !.key = k,
                              !.writable = w]
    /\ UNCHANGED <<oldVars, con, lst>>

\* what setup_ssh does once the guard of lines 61-62 has let it pass
SetupBody(d) ==
    LET g == GenerateSshConfig(EnsureSshDirectory([d EXCEPT !.bound = TRUE]))
    IN  IF g.last = "PermissionError"
        THEN g
        ELSE [ValidateSshKeys(g) EXCEPT !.complete = TRUE]

\* a variant without the guard of lines 61-62
SetupSshAgain(via) ==
    /\ ssh.stage = "open"
    /\ ssh.calls < MaxCalls
    /\ ssh' = [SetupBody(ssh) EXCEPT !.calls = ssh.calls + 1, !.last = via]
    /\ UNCHANGED <<oldVars, con, lst>>

\* SSHDockerClient.setup_ssh, lines 59-70, called by `via`
SetupSsh(via) ==
    /\ ssh.stage = "open"
    /\ ssh.calls < MaxCalls
    /\ ssh' = [(IF ssh.complete THEN ssh ELSE SetupBody(ssh))
                  EXCEPT !.calls = ssh.calls + 1, !.last = via]
    /\ UNCHANGED <<oldVars, con, lst>>

\* SSHDockerClient.add_host with the configuration the alias already has
\* (client.py lines 543-549), SSHManager.add_host (lines 60-65): without a
\* registry HostsConfig(hosts={}) is refused by validate_hosts (config.py
\* lines 26-27); else the configuration file is regenerated
SshAddHost ==
    /\ ssh.stage = "open"
    /\ ssh.gens < MaxGens
    /\ ssh' = [(IF ssh.bound THEN GenerateSshConfig(ssh) ELSE ssh)
                  EXCEPT !.last = "add_host"]
    /\ UNCHANGED <<oldVars, con, lst>>

NextSetup ==
    \/ SshOpen
    \/ \E via \in SetupCallers : SetupSsh(via)
    \/ SshAddHost

\* ---------------------------------------------------------------------
\* SSHManager._generate_ssh_config run again and again over one
\* configuration file, the list of enabled hosts staying the same.
\* ---------------------------------------------------------------------
\* what the user wrote before and after the managed section
TextsBefore == SeqsUpTo({"u1", "lf"}, MaxLines)
TextsAfter  == SeqsUpTo({"u2", "lf"}, MaxLines)

\* the files the generator finds: none; the user's text; the user's text
\* around the managed section an earlier run wrote for some enabled hosts,
\* which ends its line
ConfigFiles ==
    {NoFile}
      \cup { [exists |-> TRUE, text |-> b \o a] :
                b \in TextsBefore, a \in TextsAfter }
      \cup { [exists |-> TRUE, text |-> b \o ManagedSection(l) \o <<"lf">> \o a] :
                b \in TextsBefore, a \in TextsAfter, l \in EnabledLists \ {<<>>} }
      \cup { [exists |-> TRUE, text |-> b \o ManagedSection(l)] :
                b \in TextsBefore, l \in EnabledLists \ {<<>>} }

\* SSHManager.setup_from_config has loaded a registry (line 48) over a
\* directory with some configuration file
CfgOpen ==
    /\ ssh.stage = "none"
    /\ \E f \in ConfigFiles, l \in EnabledLists :
         ssh' = [NoSsh EXCEPT !.stage = "config", !.enabled = l, !.file = f,
                              !.orig = f, !.dirs = "both", !.bound = TRUE]
    /\ UNCHANGED <<oldVars, con, lst>>

\* SSHManager._generate_ssh_config, lines 101-144
CfgGenerate ==
    /\ ssh.stage = "config"
    /\ ssh.gens < MaxGens
    /\ ssh' = GenerateSshConfig(ssh)
    /\ UNCHANGED <<oldVars, con, lst>>

NextConfig ==
    \/ CfgOpen
    \/ CfgGenerate

StreamStep ==
    \/ \E t \in Tasks :
         \/ StopEnter(t) \/ StopWaitReturn(t)
         \/ StartSpawnOk(t) \/ StartSpawnFail(t)
         \/ CleanupEnter(t)
         \/ ClientClose(t) \/ DockerEvents(t)

ExecStep ==
    \E t \in Tasks :
         \/ ExEnter(t) \/ ExSpawnOk(t) \/ ExSpawnFail(t)
         \/ ExCommReturn(t) \/ ExTimeout(t) \/ ExReapReturn(t)
         \/ SyEnter(t) \/ SySpawnOk(t) \/ SySpawnFail(t)
         \/ SyCommReturn(t) \/ SyTimeout(t) \/ SyReapReturn(t)

EnvStep ==
    \/ \E t \in Tasks : Cancel(t) \/ Return(t)
    \/ \E p \in Pids : ProcExit(p) \/ LoopReap(p)

Call(os, seq) ==
    \E t \in Tasks, o \in os, a \in Aliases, h \in BOOLEAN : Begin(t, o, a, h, seq)

\* the event-stream manager, calls overlapping (tasks interleave at awaits)
NextStream == Call(StreamOps, FALSE) \/ StreamStep \/ EnvStep

\* the event-stream manager, one call at a time
NextStreamSeq == Call(StreamOps, TRUE) \/ StreamStep \/ EnvStep

\* the process executor, calls overlapping
NextExec == Call(ExecOps, FALSE) \/ ExecStep \/ EnvStep

\* the pool's operations on one alias: the event stream of a host is started
\* and stopped while commands run on the same and on other hosts
PoolOps ==
    { "start_event_stream", "stop_event_stream", "execute_docker_command" }

\* the steps task t takes inside start_event_stream, stop_event_stream and
\* execute_docker_command
PoolStepOf(t) ==
    \/ StopEnter(t) \/ StopWaitReturn(t)
    \/ StartSpawnOk(t) \/ StartSpawnFail(t)
    \/ ExEnter(t) \/ ExSpawnOk(t) \/ ExSpawnFail(t)
    \/ ExCommReturn(t) \/ ExTimeout(t) \/ ExReapReturn(t)

PoolStep == \E t \in Tasks : PoolStepOf(t)

\* the callers take their results, children exit and are collected; no call
\* is cancelled
PoolEnv ==
    \/ \E t \in Tasks : Return(t)
    \/ \E p \in Pids : ProcExit(p) \/ LoopReap(p)

\* a call on a configured host begins, with a timeout when it is an execute
PoolCall ==
    \E t \in Tasks, o \in PoolOps, a \in Hosts :
       Begin(t, o, a, o = "execute_docker_command", FALSE)

\* event streams and commands of several hosts, calls overlapping
NextPool == PoolCall \/ PoolStep \/ PoolEnv

SpecStream == Init /\ [][NextStream]_vars

SpecStreamSeq == Init /\ [][NextStreamSeq]_vars

SpecExec == Init /\ [][NextExec]_vars

SpecCall == Init /\ [][NextCall]_vars

SpecClient == Init /\ [][NextClient]_vars

SpecResolve == Init /\ [][NextResolve]_vars

SpecPool == Init /\ [][NextPool]_vars

SpecFilter == Init /\ [][NextFilter]_vars

SpecDeploy == Init /\ [][NextDeploy]_vars

SpecContact == Init /\ [][NextContact]_vars

SpecList == Init /\ [][NextList]_vars

SpecSetup == Init /\ [][NextSetup]_vars

SpecConfig == Init /\ [][NextConfig]_vars

\* ---------------------------------------------------------------------
\* Properties
\* ---------------------------------------------------------------------
Running(p)  == procs[p].st = "running"
Unreaped(p) == procs[p].st \in {"running", "exited"}
StreamProcs(a) == {p \in Pids : procs[p].kind = "stream" /\ procs[p].alias = a}
Ended(t, o) == pc[t] = "done" /\ op[t] = o

C2_ConcurrentSingleFlight ==
    \A a \in Hosts :
       /\ Cardinality({p \in StreamProcs(a) : Running(p)}) <= 1
       /\ \A p \in StreamProcs(a) :
             Running(p) => Has(streams, a) /\ Get(streams, a) = p

\* C3: no child leak from execute.  Whenever an execute call (non-blocking or
\* blocking) returns or raises, the child it spawned has been reaped.
C3_NoChildLeak ==
    \A t \in Tasks :
       (pc[t] = "done" /\ op[t] \in ExecOps /\ lp[t] # 0) =>
          procs[lp[t]].st = "reaped"

\* C4: timeout ordering.  While the executor waits for the child after a
\* timeout the child has been sent the kill (or is already dead), and the
\* timeout error reaches the caller only once the child has been reaped.
C4_TimeoutOrdering ==
    \A t \in Tasks :
       /\ (pc[t] \in {"ex_reap", "sy_reap"} /\ Running(lp[t])) => Killed(lp[t])
       /\ (pc[t] = "done" /\ result[t] = "DockerCommandError:timeout") =>
             /\ lp[t] # 0
             /\ procs[lp[t]].st = "reaped"

C4_Witness ==
    \E t \in Tasks :
       /\ Ended(t, "execute_docker_command")
       /\ result[t] = "DockerCommandError:timeout"
       /\ Killed(lp[t]) /\ procs[lp[t]].st = "reaped"

\* C5: stop_event_stream on a registered alias, unless cancelled, ends without
\* error with the process reaped and the alias removed from the registry.
C5_StopAlwaysRemoves ==
    \A t \in Tasks :
       (Ended(t, "stop_event_stream") /\ sp[t] # 0
          /\ result[t] # "CancelledError") =>
          /\ result[t] = "ok"
          /\ ~Has(streams, arg[t])
          /\ procs[sp[t]].st = "reaped"

C7_GracefulFirst ==
    \A p \in Pids :
       (procs[p].kind = "stream" /\ procs[p].sigs # <<>>) =>
          procs[p].sigs[1] = "TERM"

\* C8: manager-wide teardown.  Whenever close() / cleanup() ends other than by
\* cancellation, it has succeeded, the registry is empty and no stream process
\* is running.
C8_CloseTearsDown ==
    \A t \in Tasks :
       (pc[t] = "done" /\ op[t] \in {"close", "cleanup"}
          /\ result[t] # "CancelledError") =>
          /\ result[t] = "ok"
          /\ streams = <<>>
          /\ \A p \in Pids : procs[p].kind = "stream" => ~Running(p)

\* C9: consumer cancellation.  Once the consumer of docker_events(host) is
\* gone, no stream process of that host is running and no handle is left
\* registered for it.
C9_ConsumerGone ==
    \A t \in Tasks :
       Ended(t, "docker_events") =>
          /\ ~Has(streams, arg[t])
          /\ \A p \in StreamProcs(arg[t]) : ~Running(p)

\* C10: spawn failure in start.  A start_event_stream whose spawn fails (it
\* leaves the await without a process and not by cancellation) raises
\* SSHConnectionError at once, spawns nothing and leaves no handle registered
\* for the alias.
C10_SpawnFailure ==
    [][\A t \in Tasks :
         (pc[t] = "st_spawn" /\ pc'[t] = "done" /\ lp'[t] = 0
            /\ result'[t] # "CancelledError") =>
            /\ result'[t] = "SSHConnectionError:start"
            /\ ~Has(streams', arg[t])
            /\ procs' = procs]_vars

C10_Witness ==
    \E t \in Tasks :
       /\ Ended(t, "start_event_stream")
       /\ result[t] = "SSHConnectionError:start"
       /\ sp[t] # 0 /\ procs[sp[t]].st = "reaped"
       /\ ~Has(streams, arg[t])

\* ---------------------------------------------------------------------
\* Properties of one execute call (SpecCall)
\* ---------------------------------------------------------------------
Returned == call.stage = "returned"
Built == call.stage = "built"

\* the exception classes behind the result kinds
IsTransport(r) == r.kind \in {"SSHConnectionError:connection", "SSHConnectionError:execute"}
IsCommand(r) == r.kind = "DockerCommandError:command"
IsTimeout(r) == r.kind = "DockerCommandError:timeout"

\* stderr holds `ssh:` or `connection`, in any case
TransportText(b) == \E i \in 1..Len(b) : b[i] \in {"ssh:", "Connection"}

\* C11: failure classification.  When the child has exited with a nonzero
\* code, the call raises SSHConnectionError if the host is not local and
\* stderr holds `ssh:` or `connection` (any case), and DockerCommandError
\* ("Docker command failed") in every other case.
C11_FailureClassification ==
    (Returned /\ call.how = "exit" /\ call.x.rc # 0) =>
       IF ~IsLocal(call.alias) /\ TransportText(call.x.err)
       THEN IsTransport(call.res)
       ELSE IsCommand(call.res)

\* C12: result variants.  A call on a configured host ends with the output,
\* SSHConnectionError, DockerCommandError or the timeout error, and a call
\* whose timeout expired ends with the timeout error carrying the seconds
\* it was given.
C12_ResultVariants ==
    (Returned /\ call.alias \in Hosts) =>
       /\ call.res.kind = "ok" \/ IsTransport(call.res) \/ IsCommand(call.res)
             \/ IsTimeout(call.res)
       /\ call.how \in {"timeout", "gone"} =>
             IsTimeout(call.res) /\ call.res.secs = call.tm

\* C13: success path.  When the child has exited with code 0, the call
\* returns its stdout without the leading and trailing whitespace, whatever
\* stderr holds.
C13_SuccessPath ==
    (Returned /\ call.how = "exit" /\ call.x.rc = 0) =>
       /\ call.res.kind = "ok"
       /\ call.res.val = Strip(call.x.out)

\* C14: unknown alias.  A call with an alias that is not configured raises
\* HostNotFoundError, in both styles, and spawns no process.
C14_UnknownAlias ==
    (Returned /\ call.alias \notin Hosts) =>
       /\ call.res.kind = "HostNotFoundError"
       /\ call.n = 0

Other(st) == IF st = "async" THEN "sync" ELSE "async"

\* C15: call-style equivalence.  For the same alias, sub-command, timeout and
\* child outcome, the other style builds the same argv and delivers the same
\* value or the same kind of error.
C15_CallStyleEquivalence ==
    /\ Built => BuildAsync(call.alias, call.cmd) = BuildSync(call.alias, call.cmd)
    /\ (Returned /\ call.how # "gone") =>
          LET o == PoolResult(Other(call.style), call.alias, call.tm,
                              [how |-> call.how, x |-> call.x])
          IN  /\ o.kind = call.res.kind
              /\ o.kind = "ok" => o.val = call.res.val

DockerToken == <<"docker">>

\* C16: local argv.  For a local host the argv is the tokens of the
\* sub-command, with the token `docker` put in front unless it is the first
\* token already; argv[0] is `docker` and there is no -H.
C16_LocalArgv ==
    (Built /\ IsLocal(call.alias)) =>
       LET toks == ShlexSplit(call.cmd)
       IN  /\ call.argv = IF toks # <<>> /\ toks[1] = DockerToken
                          THEN toks
                          ELSE <<DockerToken>> \o toks
           /\ call.argv[1] = DockerToken
           /\ \A i \in 1..Len(call.argv) : call.argv[i] # <<"-H">>

\* the Docker arguments of a sub-command: its tokens after the token `docker`,
\* when it starts with one
DockerArgs(c) ==
    LET toks == ShlexSplit(c)
    IN  IF toks # <<>> /\ toks[1] = DockerToken THEN Tail(toks) ELSE toks

\* C17: remote argv.  For a remote host the argv is `docker`, `-H`,
\* ssh://<user>@<hostname>, then the Docker arguments of the sub-command in
\* their order; a quoted argument is one token.
C17_RemoteArgv ==
    (Built /\ ~IsLocal(call.alias)) =>
       call.argv = <<DockerToken, <<"-H">>, DockerHost(call.alias)>>
                      \o DockerArgs(call.cmd)

\* C18: one process, no retry.  A call never starts more than one process; it
\* has started exactly one when it ends after the spawn succeeded, and none
\* when the alias is unknown or the spawn failed.
C18_OneProcess ==
    /\ call.n <= 1
    /\ Returned =>
          call.n = IF call.how \in {"unknown", "spawn_error"} THEN 0 ELSE 1

C18_Witness ==
    /\ Returned /\ call.how = "exit" /\ call.x.rc # 0
    /\ IsTransport(call.res) /\ call.n = 1

\* ---------------------------------------------------------------------
\* Properties of client requests (SpecClient)
\* ---------------------------------------------------------------------
ReqEnded(o) == req.stage = "returned" /\ req.op = o

\* C19: absence result.  When docker inspect has exited with a nonzero code
\* and its output is text, with `No such object` in stderr, inspect_container
\* returns None, on a local and on a remote host, in both styles; a nonzero
\* exit without that text is raised.
C19_AbsenceResult ==
    (ReqEnded("inspect") /\ req.ev.how = "exit" /\ req.ev.x.rc # 0
        /\ ~DecodeFails(req.ev.x.out) /\ ~DecodeFails(req.ev.x.err)) =>
       IF Contains(req.ev.x.err, "No such object")
       THEN req.res = Res("ok", <<"None">>, 0)
       ELSE req.res.kind # "ok"

\* the containers the hosts seen so far contribute: those of every host
\* whose command succeeded, in the order of the hosts
RECURSIVE Gathered(_)
Gathered(seen) ==
    IF seen = <<>>
    THEN <<>>
    ELSE (IF Head(seen).kind = "ok"
          THEN [i \in 1..Head(seen).cnt |-> Head(seen).alias]
          ELSE <<>>) \o Gathered(Tail(seen))

EventLines(written) ==
    SelectSeq(SplitLines(written, <<>>, <<>>),
              LAMBDA l : ParseDockerEventsJson(l) = "dict")

\* C23: event decoding.  A consumer of docker_events(host) is handed, without
\* an error, one event for each line of the event output that parses as a
\* JSON object, in output order; the other lines are dropped.
C23_EventDecoding ==
    ReqEnded("docker_events") =>
       /\ req.res.kind = "ok"
       /\ Len(req.res.val) = Len(EventLines(req.ev.x.out))

\* ---------------------------------------------------------------------
\* Properties of one execute call against a changing registry (SpecResolve)
\* ---------------------------------------------------------------------
\* C21: referential stability.  Whenever an execute call has returned after
\* its child exited, one host configuration accounts both for the argv the
\* child was started with and for the classification of its exit, whatever
\* add_host stored under the alias in between.
C21_ReferentialStability ==
    (run.stage = "returned" /\ run.cfg # NoHost) =>
       \E h \in Hosts :
          /\ run.argv = BuildAsync(h, run.cmd)
          /\ run.res = ExitAsync(h, run.x)

C21_Witness ==
    /\ run.stage = "returned"
    /\ run.cfg = "local1" /\ hosts[run.alias] = "remote1"
    /\ run.x.rc # 0 /\ Contains(run.x.err, "ssh:")
    /\ run.res.kind = "DockerCommandError:command"

\* ---------------------------------------------------------------------
\* Properties of the pool across hosts (SpecPool)
\* ---------------------------------------------------------------------
\* what a step of task t, working on alias arg[t], leaves alone: the handle and
\* the process registered for every other alias, and the position, result and
\* child of every task working on another alias
LeavesOthers(t) ==
    /\ \A b \in Aliases \ {arg[t]} :
          /\ Has(streams', b) = Has(streams, b)
          /\ Has(streams, b) =>
                /\ Get(streams', b) = Get(streams, b)
                /\ procs'[Get(streams, b)] = procs[Get(streams, b)]
    /\ \A u \in Tasks \ {t} :
          arg[u] # arg[t] =>
             /\ pc'[u] = pc[u] /\ result'[u] = result[u] /\ lp'[u] = lp[u]
             /\ lp[u] # 0 => procs'[lp[u]] = procs[lp[u]]

\* C22: per-host independence.  Every step a call of start_event_stream,
\* stop_event_stream or execute takes on an alias (its position moves) leaves the registered handle and
\* process of every other alias as they were, and leaves the position, result
\* and child of every call on another alias as they were; a step of execute
\* leaves the event-stream registry as it was.
C22_PerHostIndependence ==
    [][\A t \in Tasks :
         (op[t] \in PoolOps /\ pc'[t] # pc[t]) =>
            /\ LeavesOthers(t)
            /\ op[t] = "execute_docker_command" => streams' = streams]_vars

C22_Witness ==
    \E t \in Tasks, u \in Tasks :
       /\ u # t
       /\ Ended(t, "execute_docker_command")
       /\ result[t] = "DockerCommandError:timeout"
       /\ op[u] = "execute_docker_command" /\ arg[u] \in Hosts \ {arg[t]}
       /\ pc[u] = "ex_comm" /\ Running(lp[u])

\* ---------------------------------------------------------------------
\* Properties of the filter shortcuts (SpecFilter)
\* ---------------------------------------------------------------------
\* the item an item of the argument stands for in the expanded filters: the
\* Docker filter of an uppercase shortcut, the item itself for any other key
Expansion(e) ==
    CASE e.key = "SERVICE" ->
            [key |-> "label", value |-> <<"com.docker.compose.service=">> \o e.value]
      [] e.key = "PROJECT" ->
            [key |-> "label", value |-> <<"com.docker.compose.project=">> \o e.value]
      [] e.key = "COMPOSE_FILE" ->
            [key |-> "label", value |-> <<"com.docker.compose.config-file=">> \o e.value]
      [] e.key = "STATUS"  -> [e EXCEPT !.key = "status"]
      [] e.key = "IMAGE"   -> [e EXCEPT !.key = "ancestor"]
      [] e.key = "NETWORK" -> [e EXCEPT !.key = "network"]
      [] e.key = "VOLUME"  -> [e EXCEPT !.key = "volume"]
      [] e.key = "NAME"    -> [e EXCEPT !.key = "name"]
      [] e.key = "ID"      -> [e EXCEPT !.key = "id"]
      [] OTHER -> e

ItemsOf(d) == {d[i] : i \in 1..Len(d)}

\* C24: filter shortcut expansion.  None gives None and an empty dict an
\* empty dict; otherwise the expanded filters hold exactly the expansion of
\* every item of the argument: the Docker filter for an uppercase shortcut,
\* and every other key, lowercase and mixed-case spellings included, unchanged
\* with its value.
C24_FilterShortcuts ==
    flt.stage = "returned" =>
       /\ flt.out.none = flt.in.none
       /\ ItemsOf(flt.out.items) = {Expansion(e) : e \in ItemsOf(flt.in.items)}

\* ---------------------------------------------------------------------
\* Properties of the compose deployment report (SpecDeploy)
\* ---------------------------------------------------------------------
Reported == dep.stage = "returned"
Actions == dep.out.actions_available
Found(s) == dep.out.services[s].containers
IsRunning(c) == LowerItem(c.State) = "running"
SomeRunning(s) == \E i \in 1..Len(Found(s)) : IsRunning(Found(s)[i])

\* C25: the report of analyze_compose_deployment has the action `up`
\* available in every deployment state, also when every service has all its
\* containers running.
C25_UpAlways ==
    Reported => Actions.up

\* C26: the report has `start` available only when all deployed containers
\* are stopped: with a matched container running, or a service not deployed,
\* `start` is not available.
C26_StartOnlyAllStopped ==
    Reported =>
       ((\E s \in DOMAIN dep.matched : SomeRunning(s) \/ Found(s) = <<>>)
           => ~Actions.start)

\* C27: the state of every service is not_deployed iff no container matches,
\* running iff some match and all of them run, stopped iff some match and none
\* runs, mixed otherwise; down, restart and stop are available iff some
\* service has a running container; and when no service has a matching
\* container, up is available and no other action is.
C27_ServiceStates ==
    Reported =>
       /\ \A s \in DOMAIN dep.matched :
             dep.out.services[s].state =
                IF Found(s) = <<>> THEN "not_deployed"
                ELSE IF \A i \in 1..Len(Found(s)) : IsRunning(Found(s)[i])
                     THEN "running"
                ELSE IF ~SomeRunning(s) THEN "stopped"
                ELSE "mixed"
       /\ \A act \in {"down", "restart", "stop"} :
             Actions[act] <=> \E s \in DOMAIN dep.matched : SomeRunning(s)
       /\ (\A s \in DOMAIN dep.matched : Found(s) = <<>>) =>
             /\ Actions.up
             /\ ~Actions.down /\ ~Actions.restart /\ ~Actions.start /\ ~Actions.stop

\* ---------------------------------------------------------------------
\* Further properties of the event-stream manager
\* ---------------------------------------------------------------------
\* C28: start_event_stream with an alias that is not configured raises
\* HostNotFoundError, has spawned no process and leaves no handle registered
\* for the alias.
C28_StartUnknownAlias ==
    \A t \in Tasks :
       (Ended(t, "start_event_stream") /\ arg[t] \notin Hosts) =>
          /\ result[t] = "HostNotFoundError"
          /\ lp[t] = 0
          /\ ~Has(streams, arg[t])

\* C29: concurrent shutdown.  While only stop_event_stream and cleanup calls
\* are in flight, a call that has found a handle whose process was sent the
\* kill ends, unless cancelled, without error, with that process reaped and
\* its alias no longer registered.
C29_ConcurrentShutdown ==
    \A t \in Tasks :
       (/\ pc[t] = "done" /\ op[t] \in {"stop_event_stream", "cleanup"}
        /\ sp[t] # 0 /\ Killed(sp[t])
        /\ result[t] # "CancelledError"
        /\ \A u \in Tasks : op[u] \in {"none", "stop_event_stream", "cleanup"}) =>
          /\ result[t] = "ok"
          /\ procs[sp[t]].st = "reaped"
          /\ ~Has(streams, procs[sp[t]].alias)

\* C30: restartable by recreation.  With one call at a time, a
\* start_event_stream that finds the handle of a process that exited on its
\* own and has been collected (it was never sent a signal) ends, unless it is
\* cancelled or the spawn fails, without error and with a newly spawned
\* running process registered for the alias.
C30_RestartAfterExit ==
    \A t \in Tasks :
       (/\ Ended(t, "start_event_stream")
        /\ sp[t] # 0 /\ ~Killed(sp[t])
        /\ result[t] \notin {"CancelledError", "SSHConnectionError:start"}) =>
          /\ result[t] = "ok"
          /\ Has(streams, arg[t])
          /\ Get(streams, arg[t]) = lp[t]
          /\ lp[t] # sp[t]
          /\ Running(lp[t])

\* C33: teardown under failure.  With one call at a time, whenever cleanup()
\* returns or raises (cancellation aside), no alias is left registered to a
\* stream process that is still running: a stop that raises does not keep
\* the remaining aliases from being stopped.
C33_CleanupUnderFailure ==
    \A t \in Tasks :
       (Ended(t, "cleanup") /\ result[t] # "CancelledError") =>
          \A a \in Hosts : Has(streams, a) => ~Running(Get(streams, a))

\* C35: registry liveness.  With one call at a time, whenever no call is in
\* flight no registered handle is that of a dead process: a process that has
\* exited and been collected by the loop is not left registered.
C35_RegistryHoldsLiveOnly ==
    (\A t \in Tasks : Idle(t)) =>
       \A a \in Hosts :
          Has(streams, a) => procs[Get(streams, a)].st # "reaped"

\* C34: the timeout/exit race.  A non-blocking execute call that spawned a
\* child and ended neither by cancellation nor with a result of the child's
\* exit status (its timeout expired) has ended with the timeout error and
\* the child reaped, also when the child exited on its own before the kill.
C34_TimeoutExitRace ==
    \A t \in Tasks :
       (/\ Ended(t, "execute_docker_command") /\ tmo[t] /\ lp[t] # 0
        /\ result[t] \notin ExitKinds[arg[t]] \cup {"CancelledError"}) =>
          /\ result[t] = "DockerCommandError:timeout"
          /\ procs[lp[t]].st = "reaped"

\* C39: local hosts report no transport failure.  An execute call, in either
\* style, on a host that is local never ends with SSHConnectionError: a
\* nonzero exit, a failed spawn and a timeout are a command failure or the
\* timeout error.
C39_LocalNeverTransport ==
    (Returned /\ call.alias \in Hosts /\ IsLocal(call.alias)) =>
       ~IsTransport(call.res)

\* C37: filter preservation.  The expanded filters hold one entry per entry
\* of the argument: no supplied filter is dropped or overwritten.
C37_FilterPreservation ==
    (flt.stage = "returned" /\ ~flt.in.none) =>
       Len(flt.out.items) = Len(flt.in.items)

\* ---------------------------------------------------------------------
\* Properties of the client over disabled hosts (SpecContact)
\* ---------------------------------------------------------------------
\* C36: disabled hosts are never contacted.  Every host an operation has
\* spawned a docker process against is enabled, for the fan-out over all
\* hosts and for an operation that names the alias.
C36_DisabledNotContacted ==
    \A i \in 1..Len(con.spawned) : con.enabled[con.spawned[i]]

\* ---------------------------------------------------------------------
\* Properties of the two list_containers styles (SpecList)
\* ---------------------------------------------------------------------
\* C38: list_containers_sync is equivalent to list_containers.  Called with
\* the same host, all_containers flag and filters, and with every host
\* answering both the same way, the two have issued the same sub-command
\* string to the same hosts in the same order and return the same containers.
C38_ListStyleEquivalence ==
    lst.stage = "returned" =>
       /\ lst.cmd.sync = lst.cmd.async
       /\ lst.hosts.sync = lst.hosts.async
       /\ lst.out.sync = lst.out.async

\* ---------------------------------------------------------------------
\* Properties of the SSH directory (SpecSetup, SpecConfig)
\* ---------------------------------------------------------------------
\* C31: setup_ssh is idempotent.  Once _setup_complete is true it stays
\* true, and a further call of setup_ssh, by the caller or by one of the
\* operations that begin with it, creates no directory, does not write the
\* SSH configuration file and changes the mode of no key.
C31_SetupIdempotent ==
    [][ssh.complete =>
          /\ ssh'.complete
          /\ ssh'.calls # ssh.calls =>
                /\ ssh'.writes = ssh.writes
                /\ ssh'.dirs = ssh.dirs
                /\ ssh'.file = ssh.file
                /\ ssh'.key = ssh.key]_vars

C31_Witness ==
    /\ ssh.complete
    /\ ssh.calls = 3
    /\ ssh.last = "list_containers"
    /\ ssh.writes = 5
    /\ ssh.file # ssh.orig

\* the lexemes of a text that are host entries of the user
IsUserEntry(x) == x \in {"u1", "u2"}
UserEntries(s) == SelectSeq(s, IsUserEntry)

\* the text outside the managed section: all of it when a marker is missing
Outside(s) ==
    IF Contains(s, StartMarker) /\ Contains(s, EndMarker)
    THEN SubSeq(s, 1, IndexOf(s, StartMarker) - 1)
            \o SubSeq(s, IndexOf(s, EndMarker) + 1, Len(s))
    ELSE s

Count(s, x) == Cardinality({i \in 1..Len(s) : s[i] = x})

\* one managed section, at the end of the text, holding the entries of hs
OneManagedSection(s, hs) ==
    /\ Count(s, StartMarker) = 1
    /\ Count(s, EndMarker) = 1
    /\ SubSeq(s, IndexOf(s, StartMarker), IndexOf(s, EndMarker))
          = ManagedSection(hs)

\* C32: regeneration is idempotent.  A run of _generate_ssh_config that
\* writes the file leaves one managed section in it, that of the enabled
\* hosts, and every host entry that stood outside the managed section
\* before, in the same order; from the second run on, with the enabled hosts
\* unchanged, it leaves the file as it found it.
C32_RegenerationIdempotent ==
    [][ssh'.gens = ssh.gens + 1 =>
          /\ ssh.gens >= 1 => ssh'.file = ssh.file
          /\ ssh'.file.exists
          /\ OneManagedSection(ssh'.file.text, ssh.enabled)
          /\ UserEntries(ssh'.file.text) = UserEntries(Outside(ssh.file.text))
      ]_vars

C32_Witness ==
    /\ ssh.stage = "config"
    /\ ssh.gens = 2
    /\ Contains(ssh.orig.text, StartMarker)
    /\ UserEntries(ssh.orig.text) = <<"u1", "u2">>
    /\ ssh.file # ssh.orig
    /\ UserEntries(ssh.file.text) = <<"u1", "u2">>

====
